---- MODULE Spec2Model ----
(***************************************************************************)
(* Student Tracker (src/main.py): the SQLite store of StudentTrackerDB,    *)
(* its spreadsheet import, its queries and delete_student.                 *)
(*                                                                         *)
(* Text is a sequence of one-character strings, so that strip, len,        *)
(* isdigit, substring search and ordering are computed and not assumed.    *)
(* An empty spreadsheet cell (pandas NaN) is the value NaN below; Python's *)
(* None is the value None.                                                 *)
(***************************************************************************)
EXTENDS Integers, Sequences, FiniteSets, TLC

VARIABLES
    students,    \* table students: set of rows
    attendance,  \* table attendance: set of rows
    marks,       \* table marks: set of rows
    comments,    \* table comments: set of rows
    seq,         \* sqlite_sequence entry of students (AUTOINCREMENT)
    now,         \* CURRENT_TIMESTAMP, advanced by every import call
    call,        \* the last call made on the store and its arguments
    ret,         \* what that call returned
    app,         \* StudentTrackerApp: running, its backup timer, the backups made
    screen       \* MainScreen: its fields, its widgets, the import thread

vars == <<students, attendance, marks, comments, seq, now, call, ret, app, screen>>

(***************************************************************************)
(* Bounds of the model.                                                    *)
(***************************************************************************)
MaxBanner == 2      \* banner rows above the header row of a generated sheet
MaxRows == 3        \* data rows below the header row of a generated sheet
MaxTime == 2        \* import calls in one behaviour
MaxRelated == 2     \* rows collaborators add to attendance, marks and comments together
MaxStudents == 3    \* students of a generated store (query specification)
MaxPerPage == 3     \* page sizes tried
MaxMarks == 3       \* marks of a generated student
MaxAttend == 4      \* attendance rows of a generated student
MaxDigits == 13     \* leading digits of a candidate matricule
MaxLongRows == 11   \* data rows of a generated long sheet
MaxTicks == 5       \* ticks of the auto-backup interval in one run of the application
MaxDeletes == 2     \* students deleted from the main screen in one run

(***************************************************************************)
(* Config                                                                  *)
(***************************************************************************)
MATRICULE_LENGTH == 12
MIN_SCORE == 0
MAX_SCORE == 20

NaN == <<"NaN">>
None == <<"None">>

\* The characters the model uses, in code point order.
Alphabet ==
    <<" ", "%", "+", "-", ".",
      "0", "1", "2", "3", "4", "5", "6", "7", "8", "9",
      "A", "B", "E", "G", "L", "M", "N", "P", "S", "Z", "_",
      "a", "b", "c", "d", "e", "f", "i", "l", "m", "n", "o", "r", "s", "t", "u",
      "\\xb0", "\\xb2", "\\xc9", "\\xe9">>

sMatricule == <<"M", "a", "t", "r", "i", "c", "u", "l", "e">>
sNom == <<"N", "o", "m">>
sPrenom == <<"P", "r", "\\xe9", "n", "o", "m">>
sSection == <<"S", "e", "c", "t", "i", "o", "n">>
sGroupe == <<"G", "r", "o", "u", "p", "e">>

REQUIRED_COLUMNS == <<sMatricule, sNom, sPrenom>>
POSSIBLE_SHEET_NAMES == <<"note", "noteDataTable1", "Sheet1", "Feuil1", "notes">>

(***************************************************************************)
(* Python str operations                                                   *)
(***************************************************************************)
Whitespace == {" "}
DecimalDigits == {"0", "1", "2", "3", "4", "5", "6", "7", "8", "9"}
\* str.isdigit is true of every character with the Unicode digit property,
\* which holds of superscript digits as well as of the decimal digits.
DigitChars == DecimalDigits \cup {"\\xb2"}

SetMin(S) == CHOOSE x \in S : \A y \in S : x <= y
SetMax(S) == CHOOSE x \in S : \A y \in S : y <= x

RECURSIVE lstrip(_)
lstrip(s) ==
    IF s # <<>> /\ Head(s) \in Whitespace THEN lstrip(Tail(s)) ELSE s

RECURSIVE rstrip(_)
rstrip(s) ==
    IF s # <<>> /\ s[Len(s)] \in Whitespace
    THEN rstrip(SubSeq(s, 1, Len(s) - 1))
    ELSE s

strip(s) == rstrip(lstrip(s))

isdigit(s) == s # <<>> /\ \A i \in 1..Len(s) : s[i] \in DigitChars

\* pattern in text
Contains(text, pattern) ==
    \E i \in 0..(Len(text) - Len(pattern)) :
        SubSeq(text, i + 1, i + Len(pattern)) = pattern

\* str(cell): text is itself, an empty cell (float nan) prints as "nan"
Str(cell) == IF cell = NaN THEN <<"n", "a", "n">> ELSE cell

CharCode(c) == CHOOSE i \in 1..Len(Alphabet) : Alphabet[i] = c

\* s < t in SQLite's BINARY collation
RECURSIVE TextLess(_, _)
TextLess(s, t) ==
    IF t = <<>> THEN FALSE
    ELSE IF s = <<>> THEN TRUE
    ELSE IF Head(s) = Head(t) THEN TextLess(Tail(s), Tail(t))
    ELSE CharCode(Head(s)) < CharCode(Head(t))

(***************************************************************************)
(* StudentTrackerApp                                                       *)
(***************************************************************************)
\* The application when build() has returned: it runs, the auto-backup
\* interval is scheduled on the Clock, the Clock has not ticked and
\* backup_database has not been called
Built == [running |-> TRUE, timer |-> TRUE, ticks |-> 0, backups |-> <<>>]

(***************************************************************************)
(* MainScreen                                                              *)
(***************************************************************************)
STUDENTS_PER_PAGE == 50

SelectGroupText == <<"Select Group">>
NoGroupsText == <<"No groups available">>

\* A callback handed to Clock.schedule_once, run by the main loop
Scheduled(fn, success) == [fn |-> fn, success |-> success]

\* LoadingPopup before open(): ProgressBar(max=100) and its label
Closed == [open |-> FALSE, value |-> <<0, 1>>, percent |-> -1]

\* MainScreen after __init__ and build_ui: the fields, the group spinner,
\* the student rows displayed, the two page buttons, the loading popup of
\* import_excel, its thread, the callbacks scheduled on the Clock and the
\* threads that wrote a widget
Opened ==
    [selected_groupe |-> None, current_page |-> 1, total_pages |-> 1,
     search_mode |-> FALSE,
     spinner_text |-> SelectGroupText, spinner_values |-> <<>>,
     shown |-> <<>>, prev_disabled |-> TRUE, next_disabled |-> TRUE,
     loading |-> Closed,
     thread |-> [pc |-> "none", file |-> None, groupe_name |-> None,
                 reported |-> 0],
     clock |-> <<Scheduled("refresh_groups", TRUE)>>,
     writes |-> {}]

(***************************************************************************)
(* validate_matricule                                                      *)
(***************************************************************************)
validate_matricule(matricule) ==
    IF matricule = <<>> \/ matricule = None
    THEN [ok |-> FALSE, msg |-> "Matricule cannot be empty"]
    ELSE IF Len(strip(matricule)) # MATRICULE_LENGTH
    THEN [ok |-> FALSE, msg |-> "Matricule must be 12 characters"]
    ELSE IF ~isdigit(strip(matricule))
    THEN [ok |-> FALSE, msg |-> "Matricule must contain only numbers"]
    ELSE [ok |-> TRUE, msg |-> ""]

(***************************************************************************)
(* validate_score                                                          *)
(***************************************************************************)
\* The ASCII letters of the model, upper case and lower case
AsciiUpper == <<"A", "B", "E", "G", "L", "M", "N", "P", "S", "Z">>
AsciiLower == <<"a", "b", "e", "g", "l", "m", "n", "p", "s", "z">>

\* The lower case of an ASCII letter, any other character is itself
AsciiFold(c) ==
    IF \E i \in 1..Len(AsciiUpper) : AsciiUpper[i] = c
    THEN AsciiLower[CHOOSE i \in 1..Len(AsciiUpper) : AsciiUpper[i] = c]
    ELSE c

FoldText(s) == [i \in 1..Len(s) |-> AsciiFold(s[i])]

DecimalValue(c) ==
    (CHOOSE i \in 1..10 :
        <<"0", "1", "2", "3", "4", "5", "6", "7", "8", "9">>[i] = c) - 1

RECURSIVE DigitsValue(_)
DigitsValue(s) ==
    IF s = <<>> THEN 0
    ELSE 10 * DigitsValue(SubSeq(s, 1, Len(s) - 1)) + DecimalValue(s[Len(s)])

RECURSIVE Pow10(_)
Pow10(n) == IF n = 0 THEN 1 ELSE 10 * Pow10(n - 1)

AllDecimal(s) == \A i \in 1..Len(s) : s[i] \in DecimalDigits

\* float(text) of a str: the text stripped, an optional sign, then nan, inf,
\* infinity in any case, or digits with at most one point and a digit on
\* one side of it at least.  The number is num / den; any other text raises
\* ValueError.
ParseFloat(text) ==
    LET t == strip(text)
        signed == t # <<>> /\ Head(t) \in {"+", "-"}
        negative == signed /\ Head(t) = "-"
        body == IF signed THEN Tail(t) ELSE t
        word == FoldText(body)
        points == {i \in 1..Len(body) : body[i] = "."}
        point == IF points = {} THEN Len(body) + 1 ELSE SetMin(points)
        whole == SubSeq(body, 1, point - 1)
        frac == SubSeq(body, point + 1, Len(body))
    IN  IF word = <<"n", "a", "n">>
        THEN [kind |-> "nan", num |-> 0, den |-> 1]
        ELSE IF word \in {<<"i", "n", "f">>,
                           <<"i", "n", "f", "i", "n", "i", "t", "y">>}
        THEN [kind |-> IF negative THEN "-inf" ELSE "inf", num |-> 0, den |-> 1]
        ELSE IF /\ Cardinality(points) <= 1
                /\ AllDecimal(whole)
                /\ AllDecimal(frac)
                /\ whole \o frac # <<>>
        THEN [kind |-> "finite",
              num |-> (IF negative THEN -1 ELSE 1) * DigitsValue(whole \o frac),
              den |-> Pow10(Len(frac))]
        ELSE [kind |-> "ValueError", num |-> 0, den |-> 1]

\* float(score): a str is parsed, a number is itself, any other object
\* raises TypeError
Float(score) ==
    IF score.type = "str" THEN ParseFloat(score.text)
    ELSE IF score.type \in {"int", "float"}
    THEN [kind |-> score.kind, num |-> score.num, den |-> score.den]
    ELSE [kind |-> "TypeError", num |-> 0, den |-> 1]

\* except ValueError
Caught == {"ValueError"}

\* score_float < MIN_SCORE or score_float > MAX_SCORE: every comparison
\* with nan is false
OutOfRange(f) ==
    \/ f.kind = "-inf"
    \/ f.kind = "inf"
    \/ f.kind = "finite" /\ f.num < MIN_SCORE * f.den
    \/ f.kind = "finite" /\ f.num > MAX_SCORE * f.den

\* raised = "" when validate_score returns, the exception when it raises
validate_score(score) ==
    IF score.type = "NoneType" \/ (score.type = "str" /\ score.text = <<>>)
    THEN [ok |-> TRUE, msg |-> "", raised |-> ""]
    ELSE LET score_float == Float(score)
         IN  IF score_float.kind \in Caught
             THEN [ok |-> FALSE, msg |-> "Score must be a number", raised |-> ""]
             ELSE IF score_float.kind \in {"ValueError", "TypeError"}
             THEN [ok |-> FALSE, msg |-> "", raised |-> score_float.kind]
             ELSE IF OutOfRange(score_float)
             THEN [ok |-> FALSE, msg |-> "Score must be between 0 and 20",
                   raised |-> ""]
             ELSE [ok |-> TRUE, msg |-> "", raised |-> ""]

(***************************************************************************)
(* The store: what a connection to the SQLite file sees.  No connection    *)
(* of StudentTrackerDB issues PRAGMA foreign_keys = ON, and SQLite leaves  *)
(* foreign keys unenforced unless a connection does, so the ON DELETE      *)
(* CASCADE clauses of init_database are declarations without effect.       *)
(***************************************************************************)
\* A connection that has issued PRAGMA foreign_keys = ON
foreign_keys_on == TRUE

foreign_keys == FALSE

StudentIds == {s.id : s \in students}

\* The rows of the three referencing tables that sit under student row id
RelatedRows(id) ==
    [attendance |-> {a \in attendance : a.student_id = id},
     marks |-> {m \in marks : m.student_id = id},
     comments |-> {c \in comments : c.student_id = id}]

\* DELETE FROM students with no WHERE clause
DeleteFromStudents_All(tbl, id) == {}

\* DELETE FROM students WHERE id = ? on table rows `tbl`
DeleteFromStudents(tbl, id) == {s \in tbl : s.id # id}

\* What a delete of student row `id` leaves of a referencing table
CascadeDelete(tbl, ids) ==
    IF foreign_keys THEN {r \in tbl : r.student_id \notin ids} ELSE tbl

\* A plain INSERT on a table without the UNIQUE constraint: the row holding
\* the same matricule stays
InsertOrReplace_Insert(db, matricule, nom, prenom, section, groupe, ts) ==
    LET id == SetMax({db.seq} \cup {s.id : s \in db.students}) + 1
    IN  [students |-> db.students \cup
            {[id |-> id, matricule |-> matricule, nom |-> nom,
              prenom |-> prenom, section |-> section, groupe |-> groupe,
              created_at |-> ts, updated_at |-> ts]},
         seq |-> id,
         replaced |-> db.replaced]

\* INSERT OR IGNORE: the row holding the same matricule wins
InsertOrReplace_Ignore(db, matricule, nom, prenom, section, groupe, ts) ==
    IF \E s \in db.students : s.matricule = matricule
    THEN db
    ELSE InsertOrReplace_Insert(db, matricule, nom, prenom, section, groupe, ts)

\* INSERT OR REPLACE INTO students (matricule, nom, prenom, section, groupe,
\* updated_at): the row holding the same matricule is deleted (UNIQUE), the
\* new row takes the next AUTOINCREMENT id and the column defaults.
InsertOrReplace(db, matricule, nom, prenom, section, groupe, ts) ==
    LET replaced == {s \in db.students : s.matricule = matricule}
        id == SetMax({db.seq} \cup {s.id : s \in db.students}) + 1
        row == [id |-> id, matricule |-> matricule, nom |-> nom,
                prenom |-> prenom, section |-> section, groupe |-> groupe,
                created_at |-> ts, updated_at |-> ts]
    IN  [students |-> (db.students \ replaced) \cup {row},
         seq |-> id,
         replaced |-> db.replaced \cup {s.id : s \in replaced}]

(***************************************************************************)
(* import_from_excel                                                       *)
(*                                                                         *)
(* A workbook is [readable, sheets], sheets a sequence of [name, rows];    *)
(* rows is a sequence of rows of equal width, a row a sequence of cells.   *)
(***************************************************************************)
sheet_names(file) == [i \in 1..Len(file.sheets) |-> file.sheets[i].name]

\* The index in file.sheets of the sheet chosen, 0 when sheet_name stays None
SelectSheet(file) ==
    LET names == sheet_names(file)
        hits == {k \in 1..Len(POSSIBLE_SHEET_NAMES) :
                    \E i \in 1..Len(names) : names[i] = POSSIBLE_SHEET_NAMES[k]}
    IN  IF hits # {}
        THEN CHOOSE i \in 1..Len(names) :
                names[i] = POSSIBLE_SHEET_NAMES[SetMin(hits)]
        ELSE IF Len(names) > 0 THEN 1 ELSE 0

\* pd.read_excel(file_path, sheet_name=...) with its default header=0: the
\* first row of the sheet becomes the column labels of the frame and is not
\* one of the frame's rows.
read_excel(rows) == IF rows = <<>> THEN <<>> ELSE Tail(rows)

IsMarkerCell(cell) == cell # NaN /\ Contains(cell, sMatricule)

RowHasMarker(row) == \E j \in 1..Len(row) : IsMarkerCell(row[j])

\* The scan for the header row over the frame's rows: the position (from 1)
\* of the first row holding a marker cell, 0 when matricule_col stays None
FindHeaderRow(df) ==
    LET hits == {i \in 1..Len(df) : RowHasMarker(df[i])}
    IN  IF hits = {} THEN 0 ELSE SetMin(hits)

\* matricule_col: the first marker cell of the header row
FindMatriculeCol(row) == SetMin({j \in 1..Len(row) : IsMarkerCell(row[j])})

HasColumn(columns, label) == \E j \in 1..Len(columns) : columns[j] = label

\* The check of the required labels left out
missing_cols_none(columns) == <<>>

missing_cols(columns) ==
    SelectSeq(REQUIRED_COLUMNS, LAMBDA col : ~HasColumn(columns, col))

\* row.get(label, default) once df.columns is the header row
RowGet(columns, row, label, default) ==
    IF HasColumn(columns, label)
    THEN row[SetMin({j \in 1..Len(columns) : columns[j] = label})]
    ELSE default

\* 0.2 + 0.7 * idx, the row index not divided by the number of rows
RowProgress_Unscaled(idx, total_rows) == <<2 + 7 * idx, 10>>

\* 0.2 + 0.7 * (idx / total_rows) as the fraction <<numerator, denominator>>
RowProgress(idx, total_rows) == <<2 * total_rows + 7 * idx, 10 * total_rows>>

\* The matricule the loop reads from a data row
RowMatricule(columns, row) == strip(Str(RowGet(columns, row, sMatricule, None)))

\* The four fields of a data row with groupe_name left unused
RowFields_NoOverride(columns, row, groupe_name) ==
    [nom |-> strip(Str(RowGet(columns, row, sNom, <<>>))),
     prenom |-> strip(Str(RowGet(columns, row, sPrenom, <<>>))),
     section |-> strip(Str(RowGet(columns, row, sSection, <<>>))),
     groupe |-> strip(Str(RowGet(columns, row, sGroupe, <<>>)))]

\* The four fields the loop reads from a data row, the group overridden by
\* a groupe_name that is neither None nor empty
RowFields(columns, row, groupe_name) ==
    [nom |-> strip(Str(RowGet(columns, row, sNom, <<>>))),
     prenom |-> strip(Str(RowGet(columns, row, sPrenom, <<>>))),
     section |-> strip(Str(RowGet(columns, row, sSection, <<>>))),
     groupe |-> IF groupe_name # None /\ groupe_name # <<>>
                THEN groupe_name
                ELSE strip(Str(RowGet(columns, row, sGroupe, <<>>)))]

\* One pass of the loop body over data row idx (from 0, as df.iterrows gives
\* it after reset_index); acc carries the connection's view of students, the
\* counters and the lists the loop appends to.
IngestRow(columns, df, idx, groupe_name, progress_callback, ts, acc) ==
    LET row == df[idx + 1]
        cell == RowGet(columns, row, sMatricule, None)
        matricule == RowMatricule(columns, row)
        valid == validate_matricule(matricule)
        f == RowFields(columns, row, groupe_name)
        db == InsertOrReplace(acc.db, matricule, f.nom, f.prenom, f.section,
                              f.groupe, ts)
    IN  IF cell = NaN \/ cell = None
        THEN acc
        ELSE IF ~valid.ok
        THEN [acc EXCEPT !.errors = Append(@, <<idx + 1, valid.msg>>)]
        ELSE [acc EXCEPT
                !.db = db,
                !.imported_count = @ + 1,
                !.progress = IF progress_callback /\ idx % 10 = 0
                             THEN Append(@, RowProgress(idx, Len(df)))
                             ELSE @]

\* The loop left at the first row that records an error
RECURSIVE IngestRows_StopAtError(_, _, _, _, _, _, _)
IngestRows_StopAtError(columns, df, idx, groupe_name, progress_callback, ts, acc) ==
    IF idx >= Len(df) \/ acc.errors # <<>>
    THEN acc
    ELSE IngestRows_StopAtError(columns, df, idx + 1, groupe_name,
            progress_callback, ts,
            IngestRow(columns, df, idx, groupe_name, progress_callback, ts, acc))

RECURSIVE IngestRows(_, _, _, _, _, _, _)
IngestRows(columns, df, idx, groupe_name, progress_callback, ts, acc) ==
    IF idx >= Len(df)
    THEN acc
    ELSE IngestRows(columns, df, idx + 1, groupe_name, progress_callback, ts,
            IngestRow(columns, df, idx, groupe_name, progress_callback, ts, acc))

ImportFailure(db, message, progress) ==
    [db |-> db,
     ret |-> [ok |-> FALSE, message |-> message, imported_count |-> 0,
              skipped |-> 0, errors |-> <<>>, progress |-> progress]]

\* The whole of import_from_excel on the store db at time ts: the store it
\* leaves and the value it returns, with the errors list and the values
\* handed to progress_callback.
ImportFromExcel(db, file, groupe_name, progress_callback, ts) ==
    LET sheet == SelectSheet(file)
        frame == read_excel(file.sheets[sheet].rows)
        p1 == IF progress_callback THEN <<<<1, 10>>>> ELSE <<>>
        header_row_idx == FindHeaderRow(frame)
        columns == frame[header_row_idx]
        df == SubSeq(frame, header_row_idx + 1, Len(frame))
        p2 == IF progress_callback THEN Append(p1, <<2, 10>>) ELSE p1
        done == IngestRows(columns, df, 0, groupe_name, progress_callback, ts,
                    [db |-> db, imported_count |-> 0, errors |-> <<>>,
                     progress |-> p2])
    IN  IF ~file.readable
        THEN ImportFailure(db, "Import error", <<>>)
        ELSE IF sheet = 0
        THEN ImportFailure(db, "Import error", p1)
        ELSE IF header_row_idx = 0
        THEN ImportFailure(db, "Could not find 'Matricule' column", p1)
        ELSE IF missing_cols(columns) # <<>>
        THEN ImportFailure(db, "Missing required columns", p1)
        ELSE [db |-> done.db,
              ret |-> [ok |-> TRUE,
                       message |-> "Successfully imported",
                       imported_count |-> done.imported_count,
                       skipped |-> Len(done.errors),
                       errors |-> done.errors,
                       progress |-> IF progress_callback
                                    THEN Append(done.progress, <<10, 10>>)
                                    ELSE done.progress]]

(***************************************************************************)
(* get_student_stats, delete_student                                       *)
(***************************************************************************)
Statuses == {"Present", "Absent", "Absent Justifi\\xe9"}

\* A REAL column holds NULL or a number: <<>> or <<v>>
NULL == <<>>

RECURSIVE SumOf(_)
SumOf(S) ==
    IF S = {} THEN 0
    ELSE LET x == CHOOSE y \in S : TRUE IN x.score[1] + SumOf(S \ {x})

\* a / b cut to an integer
RoundDiv_Floor(a, b) == a \div b

\* round(): the integer nearest to a / b (a >= 0, b > 0), the even one of
\* the two when a / b lies half way between them
RoundDiv(a, b) ==
    LET q == a \div b
        r == a % b
    IN  IF 2 * r < b THEN q
        ELSE IF 2 * r > b THEN q + 1
        ELSE IF q % 2 = 0 THEN q ELSE q + 1

\* get_student_stats on tables (st, att, mk); found = FALSE is the result
\* None. avg_score is in hundredths (round(avg, 2)) and attendance_rate in
\* tenths (round(rate, 1)).
StudentStats(st, att, mk, student_id) ==
    LET rows == {s \in st : s.id = student_id}
        scored == {m \in mk : m.student_id = student_id /\ m.score # NULL}
        mine == {a \in att : a.student_id = student_id}
        dist == [x \in {a.status : a \in mine} |->
                    Cardinality({a \in mine : a.status = x})]
        total_attendance == Cardinality(mine)
        present == Cardinality({a \in mine : a.status = "Present"})
    IN  IF rows = {}
        THEN [found |-> FALSE]
        ELSE [found |-> TRUE,
              student |-> CHOOSE s \in rows : TRUE,
              total_marks |-> Cardinality(scored),
              avg_score |-> IF scored = {} \/ SumOf(scored) = 0 THEN 0
                            ELSE RoundDiv(100 * SumOf(scored),
                                          Cardinality(scored)),
              max_score |-> IF scored = {} THEN 0
                            ELSE SetMax({m.score[1] : m \in scored}),
              min_score |-> IF scored = {} THEN 0
                            ELSE SetMin({m.score[1] : m \in scored}),
              total_classes |-> total_attendance,
              present_count |-> present,
              attendance_rate |-> IF total_attendance > 0
                                  THEN RoundDiv(1000 * present,
                                                total_attendance)
                                  ELSE 0,
              attendance_dist |-> dist]

get_student_stats(student_id) ==
    StudentStats(students, attendance, marks, student_id)

(***************************************************************************)
(* Spreadsheets the specifications import                                  *)
(***************************************************************************)
M1 == <<"1", "2", "3", "4", "5", "6", "7", "8", "9", "0", "1", "2">>
M2 == <<"0", "0", "0", "0", "0", "0", "0", "0", "0", "0", "0", "2">>
TooShort == <<"1", "2", "3", "4", "5">>
NonDigit == <<"1", "2", "3", "4", "5", "6", "7", "8", "9", "0", "1", "a">>
Ali == <<"A", "l", "i">>
Bob == <<"B", "o", "b">>
Ben == <<"B", "e", "n">>
S1 == <<"S", "1">>
G1 == <<"G", "1">>
G2 == <<"G", "2">>
G3 == <<"G", "3">>
Liste == <<"L", "i", "s", "t", "e">>
NoMatricule == <<"N", "\\xb0", " ">> \o sMatricule
Padded(s) == <<" ">> \o s \o <<" ">>

\* Header rows: the labels, and which field of a record sits under each
HStd ==
    [labels |-> <<sMatricule, sNom, sPrenom, sSection, sGroupe>>,
     fields |-> <<"m", "n", "p", "s", "g">>]
HPos3 ==
    [labels |-> <<sNom, sPrenom, sMatricule>>, fields |-> <<"n", "p", "m">>]
HNoPrenom ==
    [labels |-> <<sMatricule, sNom, sGroupe>>, fields |-> <<"m", "n", "g">>]
HMarker ==
    [labels |-> <<NoMatricule, sNom, sPrenom>>, fields |-> <<"m", "n", "p">>]

Rec(m, n, p, s, g) == [m |-> m, n |-> n, p |-> p, s |-> s, g |-> g]
DataRecs ==
    {Rec(M1, Ali, Ben, S1, G1), Rec(M1, Bob, Ben, S1, G2),
     Rec(Padded(M2), Padded(Bob), NaN, NaN, NaN),
     Rec(TooShort, Ali, Ben, S1, G1),
     Rec(NonDigit, Ali, Ben, S1, G1),
     Rec(NaN, Ali, Ben, S1, G1)}

SeqsUpTo(S, n) == UNION {[1..k -> S] : k \in 0..n}

BannerRow(width) == [j \in 1..width |-> IF j = 1 THEN Liste ELSE NaN]
DataRow(h, rec) == [j \in 1..Len(h.fields) |-> rec[h.fields[j]]]

\* k banner rows, the header row h, one row for each record of recs
SheetRows(k, h, recs) ==
    [i \in 1..k |-> BannerRow(Len(h.labels))] \o <<h.labels>> \o
    [i \in 1..Len(recs) |-> DataRow(h, recs[i])]

Workbook(name, rows) ==
    [readable |-> TRUE, sheets |-> <<[name |-> name, rows |-> rows]>>]
Unreadable == [readable |-> FALSE, sheets |-> <<>>]
NoSheets == [readable |-> TRUE, sheets |-> <<>>]
\* The data is in the sheet named 'notes'; the first sheet holds a banner
TwoSheets ==
    [readable |-> TRUE,
     sheets |-> <<[name |-> "Cover", rows |-> <<BannerRow(5)>>],
                  [name |-> "notes",
                   rows |-> SheetRows(1, HStd, <<Rec(M2, Ali, Ben, S1, G1)>>)]>>]

\* Sheets of ten rows and more: the same student in every row, but for
\* row `bad` (none when 0), which has no matricule or a short one
LongRecs(n, bad, odd) ==
    [i \in 1..n |-> IF i = bad THEN odd ELSE Rec(M1, Ali, Ben, S1, G1)]
LongFiles ==
    {Workbook("Sheet1", SheetRows(1, HStd, LongRecs(n, bad, odd))) :
        n \in 10..MaxLongRows, bad \in 0..MaxLongRows,
        odd \in {Rec(NaN, Ali, Ben, S1, G1), Rec(TooShort, Ali, Ben, S1, G1)}}

Files ==
    {Workbook("Feuil1", SheetRows(k, h, recs)) :
        k \in 0..MaxBanner, h \in {HStd, HPos3},
        recs \in SeqsUpTo(DataRecs, MaxRows)}
    \cup {Workbook("Feuil1", SheetRows(k, h, recs)) :
        k \in 0..MaxBanner, h \in {HNoPrenom, HMarker},
        recs \in SeqsUpTo({Rec(M1, Ali, Ben, S1, G1)}, 1)}
    \cup {Workbook("Data", [i \in 1..k |-> BannerRow(5)]) : k \in 0..MaxBanner}
    \cup {Unreadable, NoSheets, TwoSheets}
    \cup LongFiles

\* The files the store's life is followed over: one banner row, the usual
\* header, one student, two students, twice the same matricule
StoreRecSeqs ==
    {<<Rec(M1, Ali, Ben, S1, G1)>>, <<Rec(M1, Bob, Ben, S1, G2)>>,
     <<Rec(M1, Ali, Ben, S1, G1), Rec(M2, Ali, Ben, S1, G1)>>,
     <<Rec(M1, Ali, Ben, S1, G1), Rec(M1, Bob, Ben, S1, G2)>>}
StoreFiles ==
    {Workbook("Sheet1", SheetRows(1, HStd, recs)) : recs \in StoreRecSeqs}

GroupeNames == {None, G3}

(***************************************************************************)
(* Actions                                                                 *)
(***************************************************************************)
import_from_excel(file, groupe_name, progress_callback) ==
    /\ now < MaxTime
    /\ LET r == ImportFromExcel(
                    [students |-> students, seq |-> seq, replaced |-> {}],
                    file, groupe_name, progress_callback, now + 1)
       IN  /\ students' = r.db.students
           /\ seq' = r.db.seq
           /\ attendance' = CascadeDelete(attendance, r.db.replaced)
           /\ marks' = CascadeDelete(marks, r.db.replaced)
           /\ comments' = CascadeDelete(comments, r.db.replaced)
           /\ call' = [op |-> "import_from_excel", file |-> file,
                       groupe_name |-> groupe_name,
                       progress_callback |-> progress_callback,
                       replaced |-> r.db.replaced]
           /\ ret' = r.ret
    /\ now' = now + 1
    /\ UNCHANGED <<app, screen>>

delete_student(student_id) ==
    /\ students' = DeleteFromStudents(students, student_id)
    /\ attendance' = CascadeDelete(attendance, {student_id})
    /\ marks' = CascadeDelete(marks, {student_id})
    /\ comments' = CascadeDelete(comments, {student_id})
    /\ call' = [op |-> "delete_student", student_id |-> student_id,
                existed |-> student_id \in StudentIds]
    /\ ret' = [ok |-> TRUE, message |-> "Student deleted successfully"]
    /\ UNCHANGED <<seq, now, app, screen>>

\* Collaborators fill the referencing tables, for students that exist
ClassIds == {1}
Scores == {<<12>>}
RelatedCount ==
    Cardinality(attendance) + Cardinality(marks) + Cardinality(comments)

add_attendance(student_id, class_id, status) ==
    /\ student_id \in StudentIds
    /\ RelatedCount < MaxRelated
    /\ ~\E a \in attendance :
            a.student_id = student_id /\ a.class_id = class_id
    /\ attendance' = attendance \cup
            {[student_id |-> student_id, class_id |-> class_id,
              status |-> status]}
    /\ call' = [op |-> "add_attendance"]
    /\ ret' = [ok |-> TRUE]
    /\ UNCHANGED <<students, marks, comments, seq, now, app, screen>>

add_mark(student_id, class_id, score) ==
    /\ student_id \in StudentIds
    /\ RelatedCount < MaxRelated
    /\ ~\E m \in marks : m.student_id = student_id /\ m.class_id = class_id
    /\ marks' = marks \cup
            {[student_id |-> student_id, class_id |-> class_id,
              score |-> score]}
    /\ call' = [op |-> "add_mark"]
    /\ ret' = [ok |-> TRUE]
    /\ UNCHANGED <<students, attendance, comments, seq, now, app, screen>>

add_comment(student_id, class_id) ==
    /\ student_id \in StudentIds
    /\ RelatedCount < MaxRelated
    /\ comments' = comments \cup
            {[id |-> Cardinality(comments) + 1, student_id |-> student_id,
              class_id |-> class_id]}
    /\ call' = [op |-> "add_comment"]
    /\ ret' = [ok |-> TRUE]
    /\ UNCHANGED <<students, attendance, marks, seq, now, app, screen>>

(***************************************************************************)
(* The store through its life: imports, deletes, collaborators' rows       *)
(***************************************************************************)
Init ==
    /\ students = {}
    /\ attendance = {}
    /\ marks = {}
    /\ comments = {}
    /\ seq = 0
    /\ now = 0
    /\ app = Built
    /\ screen = Opened
    /\ call = [op |-> "init_database"]
    /\ ret = [ok |-> TRUE]

Import == \E file \in StoreFiles : import_from_excel(file, None, TRUE)
Delete == \E id \in StudentIds \cup {seq + 1} : delete_student(id)
AddAttendance ==
    \E id \in StudentIds, c \in ClassIds, st \in Statuses :
        add_attendance(id, c, st)
AddMark == \E id \in StudentIds, c \in ClassIds, sc \in Scores : add_mark(id, c, sc)
AddComment == \E id \in StudentIds, c \in ClassIds : add_comment(id, c)

Next == Import \/ Delete \/ AddAttendance \/ AddMark \/ AddComment

Spec == Init /\ [][Next]_vars

(***************************************************************************)
(* One chosen file imported, and imported again: MainScreen.import_excel   *)
(* hands the chosen file, the group typed in and its progress callback to  *)
(* import_from_excel.                                                      *)
(***************************************************************************)
EmptyDb == [students |-> {}, seq |-> 0, replaced |-> {}]

\* The store as an earlier import of one student left it
EarlierDb ==
    ImportFromExcel(EmptyDb,
        Workbook("Sheet1", SheetRows(1, HStd, <<Rec(M1, Bob, Ben, S1, G2)>>)),
        None, TRUE, 0).db

InitImport ==
    /\ \E db \in {EmptyDb, EarlierDb} :
        /\ students = db.students
        /\ seq = db.seq
    /\ attendance = {}
    /\ marks = {}
    /\ comments = {}
    /\ now = 0
    /\ app = Built
    /\ screen = Opened
    /\ \E file \in Files, groupe_name \in GroupeNames :
        call = [op |-> "open_file_chooser", file |-> file,
                groupe_name |-> groupe_name, progress_callback |-> TRUE,
                replaced |-> {}]
    /\ ret = [ok |-> TRUE]

ImportChosen ==
    import_from_excel(call.file, call.groupe_name, call.progress_callback)

NextImport == ImportChosen

SpecImport == InitImport /\ [][NextImport]_vars

(***************************************************************************)
(* Properties of the store through its life (Spec)                         *)
(***************************************************************************)
ImportStep == now' = now + 1

NoRelatedRows(id) ==
    /\ RelatedRows(id).attendance = {}
    /\ RelatedRows(id).marks = {}
    /\ RelatedRows(id).comments = {}

\* C1: after delete_student(id) on an existing student no attendance, marks
\* or comments row with student_id = id remains, and get_student_stats(id)
\* returns None.
C1_DeleteCascades ==
    (call.op = "delete_student" /\ call.existed) =>
        /\ NoRelatedRows(call.student_id)
        /\ ~get_student_stats(call.student_id).found

\* C2: every attendance, marks and comments row references a student row
\* that exists.
C2_NoOrphans ==
    /\ \A a \in attendance : a.student_id \in StudentIds
    /\ \A m \in marks : m.student_id \in StudentIds
    /\ \A c \in comments : c.student_id \in StudentIds

\* C3: an import leaves every student whose matricule was in the store
\* before it under the id and creation timestamp it had, so that
\* get_student_stats on that id still finds the student with its marks and
\* attendance.
C3_UpsertKeepsId ==
    [][ImportStep =>
        \A s \in students :
            (\E t \in students' : t.matricule = s.matricule) =>
                /\ \E t \in students' :
                    /\ t.matricule = s.matricule
                    /\ t.id = s.id
                    /\ t.created_at = s.created_at
                /\ StudentStats(students', attendance', marks', s.id).found
                /\ StudentStats(students', attendance', marks', s.id).total_marks
                    = StudentStats(students, attendance, marks, s.id).total_marks
                /\ StudentStats(students', attendance', marks', s.id).total_classes
                    = StudentStats(students, attendance, marks, s.id).total_classes
    ]_vars

\* C4: no two student rows have the same matricule.
C4_MatriculeUnique ==
    \A s \in students, t \in students : s.matricule = t.matricule => s = t

\* C4 witness: a file that holds the same matricule twice has been imported
\* over a store that held that matricule already, and one row holds it.
C4_Witness ==
    /\ call.op = "import_from_excel"
    /\ ret.ok
    /\ ret.imported_count = 2
    /\ call.replaced # {}
    /\ Cardinality(students) = 1

(***************************************************************************)
(* Properties of one import (SpecImport)                                   *)
(***************************************************************************)
Imported == call.op = "import_from_excel"

\* The rows of the sheet the import reads, top row included
ChosenRows(file) == file.sheets[SelectSheet(file)].rows
Frame(file) == read_excel(ChosenRows(file))
Columns(file) == Frame(file)[FindHeaderRow(Frame(file))]
DataRows(file) ==
    SubSeq(Frame(file), FindHeaderRow(Frame(file)) + 1, Len(Frame(file)))

\* The file gets through sheet selection, header detection, column binding
PassesStructure(file) ==
    /\ file.readable
    /\ SelectSheet(file) # 0
    /\ FindHeaderRow(Frame(file)) # 0
    /\ missing_cols(Columns(file)) = <<>>

RowIsBlank(columns, row) == RowGet(columns, row, sMatricule, None) \in {NaN, None}
RowIsValid(columns, row) ==
    ~RowIsBlank(columns, row) /\ validate_matricule(RowMatricule(columns, row)).ok
RowIsInvalid(columns, row) ==
    ~RowIsBlank(columns, row) /\ ~validate_matricule(RowMatricule(columns, row)).ok

\* The imported fields of the student rows
StudentData(tbl) ==
    {[matricule |-> s.matricule, nom |-> s.nom, prenom |-> s.prenom,
      section |-> s.section, groupe |-> s.groupe] : s \in tbl}

C6_LastWriteWins ==
    (Imported /\ ret.ok) =>
        LET columns == Columns(call.file)
            data == DataRows(call.file)
        IN  \A i \in 1..Len(data) :
                (/\ RowIsValid(columns, data[i])
                 /\ ~\E j \in (i + 1)..Len(data) :
                        /\ RowIsValid(columns, data[j])
                        /\ RowMatricule(columns, data[j])
                            = RowMatricule(columns, data[i])) =>
                    LET f == RowFields(columns, data[i], call.groupe_name)
                        held == {s \in students :
                                    s.matricule = RowMatricule(columns, data[i])}
                    IN  /\ Cardinality(held) = 1
                        /\ \A s \in held :
                            /\ s.nom = f.nom
                            /\ s.prenom = f.prenom
                            /\ s.section = f.section
                            /\ s.groupe = f.groupe

\* C6 witness: the file imported holds one matricule in two valid rows with
\* different names, and the store held that matricule before.
C6_Witness ==
    /\ Imported
    /\ ret.ok
    /\ call.replaced # {}
    /\ LET columns == Columns(call.file)
           data == DataRows(call.file)
       IN  \E i \in 1..Len(data), j \in 1..Len(data) :
            /\ i < j
            /\ RowIsValid(columns, data[i])
            /\ RowIsValid(columns, data[j])
            /\ RowMatricule(columns, data[i]) = RowMatricule(columns, data[j])
            /\ RowFields(columns, data[i], None).nom
                # RowFields(columns, data[j], None).nom

\* C7: a file that gets through sheet selection, header detection and column
\* binding is imported with ok = True; every row with a valid matricule is
\* in the store afterwards, and the error list holds exactly one entry
\* (row number, reason) for each row with an invalid matricule.
C7_RowFailuresSoft ==
    (Imported /\ PassesStructure(call.file)) =>
        LET columns == Columns(call.file)
            data == DataRows(call.file)
            invalid == {i \in 1..Len(data) : RowIsInvalid(columns, data[i])}
        IN  /\ ret.ok
            /\ \A i \in 1..Len(data) :
                RowIsValid(columns, data[i]) =>
                    \E s \in students :
                        s.matricule = RowMatricule(columns, data[i])
            /\ Len(ret.errors) = Cardinality(invalid)
            /\ \A i \in invalid :
                /\ Cardinality({k \in 1..Len(ret.errors) :
                                    ret.errors[k][1] = i}) = 1
                /\ \A k \in 1..Len(ret.errors) :
                    ret.errors[k][1] = i =>
                        ret.errors[k][2] =
                            validate_matricule(RowMatricule(columns, data[i])).msg

\* C7 witness: an invalid row between two valid rows, all three handled.
C7_Witness ==
    /\ Imported
    /\ ret.ok
    /\ LET columns == Columns(call.file)
           data == DataRows(call.file)
       IN  /\ Len(data) = 3
           /\ RowIsValid(columns, data[1])
           /\ RowIsInvalid(columns, data[2])
           /\ RowIsValid(columns, data[3])
           /\ RowMatricule(columns, data[1]) # RowMatricule(columns, data[3])
    /\ ret.imported_count = 2
    /\ Len(ret.errors) = 1

\* A cell of the sheet, any row, holds the marker
SheetHasMarker(rows) == \E i \in 1..Len(rows) : RowHasMarker(rows[i])

\* The structural failures: unreadable file, no sheet, no marker cell in the
\* sheet, or a required label absent from the bound header row
StructuralFailure(file) ==
    \/ ~file.readable
    \/ SelectSheet(file) = 0
    \/ ~SheetHasMarker(ChosenRows(file))
    \/ /\ FindHeaderRow(Frame(file)) # 0
       /\ \E k \in 1..Len(REQUIRED_COLUMNS) :
            \A j \in 1..Len(Columns(file)) :
                Columns(file)[j] # REQUIRED_COLUMNS[k]

\* C8: an import of a file with a structural failure returns (False, a
\* non-empty message, 0), and an import that returns False leaves the
\* student rows as they were.
C8_StructuralFailure ==
    [][ImportStep =>
        /\ StructuralFailure(call'.file) => ~ret'.ok
        /\ ~ret'.ok =>
            /\ ret'.message # ""
            /\ ret'.imported_count = 0
            /\ students' = students
            /\ seq' = seq
    ]_vars

\* C8 witness: a file without a required label was refused over a store
\* that holds a student.
C8_Witness ==
    /\ Imported
    /\ ~ret.ok
    /\ ret.message = "Missing required columns"
    /\ students # {}

\* The first row of the sheet, scanning from the top row, that holds a
\* marker cell; 0 if there is none
SheetHeaderRow(rows) ==
    IF SheetHasMarker(rows)
    THEN SetMin({i \in 1..Len(rows) : RowHasMarker(rows[i])})
    ELSE 0

\* C9: when the first row of the sheet that holds a marker cell carries the
\* required labels, whatever number of rows precedes it (none included),
\* the import binds it as the labels and imports every valid row below it.
C9_HeaderAutoDetect ==
    (/\ Imported
     /\ call.file.readable
     /\ SelectSheet(call.file) # 0
     /\ SheetHeaderRow(ChosenRows(call.file)) # 0
     /\ missing_cols(ChosenRows(call.file)[SheetHeaderRow(ChosenRows(call.file))])
            = <<>>) =>
        LET rows == ChosenRows(call.file)
            h == SheetHeaderRow(rows)
        IN  /\ ret.ok
            /\ \A i \in (h + 1)..Len(rows) :
                RowIsValid(rows[h], rows[i]) =>
                    \E s \in students :
                        s.matricule = RowMatricule(rows[h], rows[i])

(***************************************************************************)
(* get_students_paginated                                                  *)
(***************************************************************************)
\* ORDER BY nom, prenom: rows that tie on both come out in the order the
\* table is scanned, by rowid (the sort key of SQLite's ORDER BY with a
\* LIMIT ends with the sequence number of the row in the scan).
RowBefore(s, t) ==
    \/ TextLess(s.nom, t.nom)
    \/ s.nom = t.nom /\ TextLess(s.prenom, t.prenom)
    \/ s.nom = t.nom /\ s.prenom = t.prenom /\ s.id < t.id

RECURSIVE OrderByNomPrenom(_)
OrderByNomPrenom(rows) ==
    IF rows = {} THEN <<>>
    ELSE LET first == CHOOSE s \in rows : \A t \in rows \ {s} : RowBefore(s, t)
         IN  <<first>> \o OrderByNomPrenom(rows \ {first})

\* The offset of a page counted from 0
PageOffset_FromZero(page, per_page) == page * per_page

\* offset = (page - 1) * per_page
PageOffset(page, per_page) == (page - 1) * per_page

\* LIMIT n OFFSET k of SQLite: a negative k is 0, a negative n is no limit
LimitOffset(sorted, n, k) ==
    LET from == IF k < 0 THEN 0 ELSE k
        upto == IF n < 0 THEN Len(sorted) ELSE from + n
    IN  SubSeq(sorted, from + 1, IF upto > Len(sorted) THEN Len(sorted) ELSE upto)

\* The value get_students_paginated returns on table tbl
StudentsPaginated(tbl, groupe, page, per_page) ==
    LET rows == {s \in tbl : s.groupe = groupe}
        total_count == Cardinality(rows)
    IN  IF per_page = 0
        THEN [students |-> <<>>, page |-> 1, total_pages |-> 1, total_count |-> 0]
        ELSE [students |-> LimitOffset(OrderByNomPrenom(rows), per_page,
                                PageOffset(page, per_page)),
              page |-> page,
              total_pages |-> (total_count + per_page - 1) \div per_page,
              total_count |-> total_count]

get_students_paginated(groupe, page, per_page) ==
    /\ call' = [op |-> "get_students_paginated", groupe |-> groupe,
                page |-> page, per_page |-> per_page]
    /\ ret' = StudentsPaginated(students, groupe, page, per_page)
    /\ UNCHANGED <<students, attendance, marks, comments, seq, now, app, screen>>

(***************************************************************************)
(* search_students                                                         *)
(***************************************************************************)
\* text LIKE pattern in SQLite: % stands for any run of characters, _ for
\* any one character, and ASCII letters match in either case
RECURSIVE Like(_, _)
Like(pattern, text) ==
    IF pattern = <<>> THEN text = <<>>
    ELSE IF Head(pattern) = "%"
    THEN Like(Tail(pattern), text) \/ (text # <<>> /\ Like(pattern, Tail(text)))
    ELSE IF text = <<>> THEN FALSE
    ELSE IF Head(pattern) = "_" THEN Like(Tail(pattern), Tail(text))
    ELSE AsciiFold(Head(pattern)) = AsciiFold(Head(text))
            /\ Like(Tail(pattern), Tail(text))

\* SELECT id, matricule, nom, prenom, section, groupe
SearchColumns(s) ==
    [id |-> s.id, matricule |-> s.matricule, nom |-> s.nom,
     prenom |-> s.prenom, section |-> s.section, groupe |-> s.groupe]

\* The rows search_students returns on table tbl
SearchStudents(tbl, query, groupe) ==
    LET search_pattern == <<"%">> \o query \o <<"%">>
        rows == {s \in tbl :
                    /\ (groupe # None /\ groupe # <<>>) => s.groupe = groupe
                    /\ \/ Like(search_pattern, s.matricule)
                       \/ Like(search_pattern, s.nom)
                       \/ Like(search_pattern, s.prenom)}
        sorted == OrderByNomPrenom(rows)
    IN  [i \in 1..Len(sorted) |-> SearchColumns(sorted[i])]

search_students(query, groupe) ==
    /\ call' = [op |-> "search_students", query |-> query, groupe |-> groupe]
    /\ ret' = [results |-> SearchStudents(students, query, groupe)]
    /\ UNCHANGED <<students, attendance, marks, comments, seq, now, app, screen>>

\* The texts typed into the search box
Queries ==
    {<<"a">>, <<"L", "I">>, <<"o", "b">>, <<"1">>, <<"Z">>,
     <<"_">>, <<"%">>, <<"A", "_", "i">>}

(***************************************************************************)
(* export_to_excel                                                         *)
(***************************************************************************)
\* ORDER BY nom, prenom on every row, the group not looked at
RowBeforeGroupe_NomOnly(s, t) == RowBefore(s, t)

\* ORDER BY groupe, nom, prenom: ties come out in rowid order
RowBeforeGroupe(s, t) ==
    \/ TextLess(s.groupe, t.groupe)
    \/ s.groupe = t.groupe /\ RowBefore(s, t)

RECURSIVE OrderByGroupeNomPrenom(_)
OrderByGroupeNomPrenom(rows) ==
    IF rows = {} THEN <<>>
    ELSE LET first == CHOOSE s \in rows :
                        \A t \in rows \ {s} : RowBeforeGroupe(s, t)
         IN  <<first>> \o OrderByGroupeNomPrenom(rows \ {first})

\* The data frame export_to_excel reads from table tbl and writes to the
\* sheet 'Students', and the value it returns
ExportToExcel(tbl, groupe) ==
    LET df == IF groupe # None /\ groupe # <<>>
              THEN OrderByNomPrenom({s \in tbl : s.groupe = groupe})
              ELSE OrderByGroupeNomPrenom(tbl)
    IN  [ok |-> TRUE, exported |-> Len(df), sheet |-> df]

export_to_excel(groupe) ==
    /\ call' = [op |-> "export_to_excel", groupe |-> groupe]
    /\ ret' = ExportToExcel(students, groupe)
    /\ UNCHANGED <<students, attendance, marks, comments, seq, now, app, screen>>

(***************************************************************************)
(* Queries on a store of up to MaxStudents students                        *)
(***************************************************************************)
DigitText(i) == <<<<"0", "1", "2", "3", "4", "5", "6", "7", "8", "9">>[i + 1]>>
Matricule(i) ==
    <<"0", "0", "0", "0", "0", "0", "0", "0", "0", "0", "0">> \o DigitText(i)

\* Stores that imports build: students 1..n in the order they were inserted
GeneratedStores ==
    UNION {
        {{[id |-> i, matricule |-> Matricule(i), nom |-> who[i].nom,
           prenom |-> Ben, section |-> S1, groupe |-> who[i].groupe,
           created_at |-> 0, updated_at |-> 0] : i \in 1..n} :
            who \in [1..n -> [nom : {Ali, Bob}, groupe : {G1, G2}]]} :
        n \in 0..MaxStudents}

InitQuery ==
    /\ students \in GeneratedStores
    /\ seq = Cardinality(students)
    /\ attendance = {}
    /\ marks = {}
    /\ comments = {}
    /\ now = 0
    /\ app = Built
    /\ screen = Opened
    /\ call = [op |-> "init_database"]
    /\ ret = [ok |-> TRUE]

Paginate ==
    \E groupe \in {G1, G2}, page \in 0..(MaxStudents + 1), per_page \in 1..MaxPerPage :
        get_students_paginated(groupe, page, per_page)

Search ==
    \E query \in Queries, groupe \in {None, G1} : search_students(query, groupe)

Export == \E groupe \in {None, G1, G2} : export_to_excel(groupe)

NextQuery == Paginate \/ Search \/ Export

SpecQuery == InitQuery /\ [][NextQuery]_vars

(***************************************************************************)
(* Properties of the queries (SpecQuery)                                   *)
(***************************************************************************)
Range(f) == {f[i] : i \in DOMAIN f}

RECURSIVE SumLen(_, _, _, _)
SumLen(groupe, per_page, p, last) ==
    IF p > last THEN 0
    ELSE Len(StudentsPaginated(students, groupe, p, per_page).students)
            + SumLen(groupe, per_page, p + 1, last)

\* C10: for every group and page size P >= 1 the pages 1..total_pages are
\* pairwise disjoint, their lengths sum to the number N of students of the
\* group, together they hold every student of the group, and
\* total_pages = ceil(N / P).
C10_PagesPartition ==
    \A groupe \in {G1, G2}, per_page \in 1..MaxPerPage :
        LET N == Cardinality({s \in students : s.groupe = groupe})
            total_pages == StudentsPaginated(students, groupe, 1, per_page).total_pages
            Page(p) == StudentsPaginated(students, groupe, p, per_page).students
        IN  /\ total_pages * per_page >= N
            /\ (total_pages - 1) * per_page < N \/ (N = 0 /\ total_pages = 0)
            /\ \A p \in 1..total_pages :
                StudentsPaginated(students, groupe, p, per_page).total_pages
                    = total_pages
            /\ \A p \in 1..total_pages, q \in 1..total_pages :
                p # q => Range(Page(p)) \cap Range(Page(q)) = {}
            /\ \A p \in 1..total_pages :
                Cardinality(Range(Page(p))) = Len(Page(p))
            /\ SumLen(groupe, per_page, 1, total_pages) = N
            /\ UNION {Range(Page(p)) : p \in 1..total_pages}
                = {s \in students : s.groupe = groupe}

\* C10 witness: the last page of a group of three students who tie on nom
\* and prenom has been read with two students to a page.
C10_Witness ==
    /\ call.op = "get_students_paginated"
    /\ call.per_page = 2
    /\ call.page = 2
    /\ ret.total_count = 3
    /\ ret.total_pages = 2
    /\ Len(ret.students) = 1
    /\ \A s \in students : s.groupe = call.groupe => s.nom = Ali

\* C11: a request for page 0, or for a page after the last one, returns an
\* empty sequence of students, for every group and page size P >= 1.
C11_OutOfRangeEmpty ==
    (/\ call.op = "get_students_paginated"
     /\ call.per_page >= 1
     /\ call.page = 0 \/ call.page > ret.total_pages) =>
        ret.students = <<>>

(***************************************************************************)
(* get_student_stats on the marks and attendance of one student            *)
(***************************************************************************)
view_student_details(student_id) ==
    /\ call' = [op |-> "get_student_stats", student_id |-> student_id]
    /\ ret' = get_student_stats(student_id)
    /\ UNCHANGED <<students, attendance, marks, comments, seq, now, app, screen>>

\* The scores collaborators record, NULL among them
ScoreChoices == <<NULL, <<12>>, <<13>>, <<16>>, <<20>>>>

\* Marks of student 1 in classes 1..k, one row a class
GeneratedMarks ==
    UNION {
        {{[student_id |-> 1, class_id |-> c, score |-> ScoreChoices[f[c]]] :
            c \in 1..k} :
            f \in {g \in [1..k -> 1..Len(ScoreChoices)] :
                        \A c \in 1..(k - 1) : g[c] <= g[c + 1]}} :
        k \in 0..MaxMarks}

\* Attendance of student 1: p classes Present, then a Absent, then j
\* Absent Justifie
GeneratedAttendance ==
    {{[student_id |-> 1, class_id |-> c,
       status |-> IF c <= n[1] THEN "Present"
                  ELSE IF c <= n[1] + n[2] THEN "Absent"
                  ELSE "Absent Justifi\\xe9"] : c \in 1..(n[1] + n[2] + n[3])} :
        n \in {m \in (0..MaxAttend) \X (0..MaxAttend) \X (0..MaxAttend) :
                    m[1] + m[2] + m[3] <= MaxAttend}}

\* Student 1 is in the store, or was deleted and left its rows behind
InitStats ==
    /\ students \in {{}, EarlierDb.students}
    /\ seq = 1
    /\ attendance \in GeneratedAttendance
    /\ marks \in GeneratedMarks
    /\ comments = {}
    /\ now = 0
    /\ app = Built
    /\ screen = Opened
    /\ call = [op |-> "init_database"]
    /\ ret = [ok |-> TRUE]

Stats == \E id \in 1..2 : view_student_details(id)

NextStats == Stats

SpecStats == InitStats /\ [][NextStats]_vars

(***************************************************************************)
(* Properties of get_student_stats (SpecStats)                             *)
(***************************************************************************)
StatsCalled == call.op = "get_student_stats"
ScoredMarks == {m \in marks : m.student_id = call.student_id /\ m.score # NULL}
ScoreSum == SumOf(ScoredMarks)
AttendanceRows == {a \in attendance : a.student_id = call.student_id}
PresentRows == {a \in AttendanceRows : a.status = "Present"}

\* The counts, the maximum and the minimum that C12 states
StatsCounts ==
    /\ ret.found <=> \E s \in students : s.id = call.student_id
    /\ ret.found =>
        /\ ret.total_marks = Cardinality(ScoredMarks)
        /\ \A m \in ScoredMarks : ret.min_score <= m.score[1] /\ m.score[1] <= ret.max_score
        /\ ScoredMarks # {} =>
                /\ \E m \in ScoredMarks : m.score[1] = ret.max_score
                /\ \E m \in ScoredMarks : m.score[1] = ret.min_score
        /\ ScoredMarks = {} =>
                ret.max_score = 0 /\ ret.min_score = 0 /\ ret.avg_score = 0
        /\ AttendanceRows = {} => ret.attendance_rate = 0

\* C12 as stated: get_student_stats returns None exactly when no student has
\* the id; otherwise total_marks, max_score and min_score are the count,
\* maximum and minimum of the non-null scores (0 when there are none),
\* avg_score is their mean and attendance_rate is Present / all attendance
\* rows * 100 (0 when there are none).
C12_StatsExact ==
    StatsCalled =>
        /\ StatsCounts
        /\ ret.found =>
            /\ ret.avg_score * Cardinality(ScoredMarks) = 100 * ScoreSum
            /\ ret.attendance_rate * Cardinality(AttendanceRows)
                    = 1000 * Cardinality(PresentRows)

\* C12 amended: as C12, with avg_score the mean rounded to two decimals and
\* attendance_rate the rate rounded to one decimal: each is within half a
\* unit of its last decimal of the exact value.
C12_StatsRounded ==
    StatsCalled =>
        /\ StatsCounts
        /\ ret.found =>
            /\ 2 * ret.avg_score * Cardinality(ScoredMarks)
                    <= 200 * ScoreSum + Cardinality(ScoredMarks)
            /\ 2 * ret.avg_score * Cardinality(ScoredMarks)
                    >= 200 * ScoreSum - Cardinality(ScoredMarks)
            /\ 2 * ret.attendance_rate * Cardinality(AttendanceRows)
                    <= 2000 * Cardinality(PresentRows) + Cardinality(AttendanceRows)
            /\ 2 * ret.attendance_rate * Cardinality(AttendanceRows)
                    >= 2000 * Cardinality(PresentRows) - Cardinality(AttendanceRows)

\* C12 witness: the statistics of a student with marks 12, 16, 20 and
\* attendance Present 3, Absent 1 are 3 marks, average 16.00, maximum 20,
\* minimum 12 and rate 75.0.
C12_Witness ==
    /\ StatsCalled
    /\ {m.score : m \in marks} = {<<12>>, <<16>>, <<20>>}
    /\ Cardinality(PresentRows) = 3
    /\ Cardinality(AttendanceRows) = 4
    /\ ret.found
    /\ ret.total_marks = 3
    /\ ret.avg_score = 1600
    /\ ret.max_score = 20
    /\ ret.min_score = 12
    /\ ret.attendance_rate = 750

Ones(k) == [i \in 1..k |-> "1"]

\* Candidate matricules: None, and k digits, then nothing or a letter, a
\* superscript two or a space, then nothing or one more digit, with or
\* without a space before and after
MatriculeInputs ==
    {None} \cup
    {lead \o Ones(k) \o extra \o last \o trail :
        lead \in {<<>>, <<" ">>}, k \in 0..MaxDigits,
        extra \in {<<>>, <<"a">>, <<"\\xb2">>, <<" ">>},
        last \in {<<>>, <<"2">>}, trail \in {<<>>, <<" ">>}}

PyNone == [type |-> "NoneType", text |-> <<>>, kind |-> "", num |-> 0, den |-> 1]
PyStr(text) == [type |-> "str", text |-> text, kind |-> "", num |-> 0, den |-> 1]
PyInt(n) == [type |-> "int", text |-> <<>>, kind |-> "finite", num |-> n, den |-> 1]
PyFloat(num, den) ==
    [type |-> "float", text |-> <<>>, kind |-> "finite", num |-> num, den |-> den]
PyNaN == [type |-> "float", text |-> <<>>, kind |-> "nan", num |-> 0, den |-> 1]
PyList == [type |-> "list", text |-> <<>>, kind |-> "", num |-> 0, den |-> 1]

ScoreTexts ==
    {<<>>, <<"0">>, <<"2", "0">>, <<"2", "0", ".", "0", "0">>,
     <<"2", "0", ".", "1">>, <<"-", "0", ".", "0", "1">>, <<"-", "0">>,
     <<"+", "5">>, <<"1", ".">>, <<".", "5">>, <<" ", "1", "2", " ">>,
     <<"1", "2", ".", "5">>, <<"2", "1">>, <<"-", "1">>,
     <<".">>, <<"-">>, <<" ">>, <<"1", " ", "2">>, <<"1", ".", "2", ".", "3">>,
     <<"a", "b", "c">>, <<"\\xb2">>,
     <<"n", "a", "n">>, <<"N", "a", "N">>, <<"i", "n", "f">>,
     <<"-", "i", "n", "f">>}

\* Candidate scores: None, texts, numbers 0, 20, -0.01, 20.1, 12.5, the
\* float nan of an empty cell, and an object that is neither text nor number
ScoreInputs ==
    {PyNone, PyNaN, PyList, PyInt(0), PyInt(20), PyInt(21), PyInt(-1),
     PyFloat(-1, 100), PyFloat(201, 10), PyFloat(125, 10), PyFloat(200, 10)}
    \cup {PyStr(t) : t \in ScoreTexts}

InitValidate ==
    /\ students = {}
    /\ attendance = {}
    /\ marks = {}
    /\ comments = {}
    /\ seq = 0
    /\ now = 0
    /\ app = Built
    /\ screen = Opened
    /\ \/ call \in {[op |-> "input", matricule |-> v] : v \in MatriculeInputs}
       \/ call \in {[op |-> "input", score |-> v] : v \in ScoreInputs}
    /\ ret = [ok |-> TRUE]

ValidateMatricule ==
    /\ call.op = "input"
    /\ "matricule" \in DOMAIN call
    /\ call' = [op |-> "validate_matricule", matricule |-> call.matricule]
    /\ ret' = validate_matricule(call.matricule)
    /\ UNCHANGED <<students, attendance, marks, comments, seq, now, app, screen>>

ValidateScore ==
    /\ call.op = "input"
    /\ "score" \in DOMAIN call
    /\ call' = [op |-> "validate_score", score |-> call.score]
    /\ ret' = validate_score(call.score)
    /\ UNCHANGED <<students, attendance, marks, comments, seq, now, app, screen>>

NextValidate == ValidateMatricule \/ ValidateScore

SpecValidate == InitValidate /\ [][NextValidate]_vars

(***************************************************************************)
(* Properties of the validators (SpecValidate)                             *)
(***************************************************************************)
\* C14: validate_matricule passes a value exactly when it is not empty and,
\* trimmed of surrounding whitespace, is exactly 12 characters long, each a
\* decimal digit; a value of the wrong length and a value with a character
\* that is not a digit fail with different reasons; the store is untouched.
C14_MatriculeIffDecimal ==
    call.op = "validate_matricule" =>
        LET v == call.matricule
            t == strip(v)
        IN  /\ ret.ok <=>
                /\ v # None
                /\ v # <<>>
                /\ Len(t) = 12
                /\ \A i \in 1..Len(t) : t[i] \in DecimalDigits
            /\ ~ret.ok => ret.msg # ""
            /\ (v # None /\ v # <<>> /\ Len(t) # 12) =>
                    ret.msg = "Matricule must be 12 characters"
            /\ (Len(t) = 12 /\ \E i \in 1..12 : t[i] \notin DigitChars) =>
                    ret.msg = "Matricule must contain only numbers"
            /\ students = {} /\ seq = 0

\* The value of a score that is a number: <<num, den>> in a set, or no
\* element when the score is no number
NumberOf(score) ==
    LET f == Float(score)
    IN  IF f.kind = "finite" THEN {<<f.num, f.den>>} ELSE {}

\* C15: validate_score accepts None and the empty text; any other value
\* passes exactly when it parses as a number s with 0 <= s <= 20; a value
\* that does not parse fails with a reason and nothing is raised.
C15_ScoreIffInRange ==
    call.op = "validate_score" =>
        LET v == call.score
            absent == v.type = "NoneType" \/ (v.type = "str" /\ v.text = <<>>)
        IN  /\ ret.raised = ""
            /\ absent => ret.ok
            /\ ~absent =>
                (ret.ok <=> \E s \in NumberOf(v) :
                                0 <= s[1] /\ s[1] <= 20 * s[2])
            /\ ~ret.ok => ret.msg # ""

\* text holds pattern, letters compared without regard to case
ContainsNoCase(text, pattern) == Contains(FoldText(text), FoldText(pattern))

\* C16: search_students returns exactly the students whose matricule, nom
\* or prenom holds the text as a substring, case ignored, of the group when
\* one is given, ordered by nom then prenom; no student is returned that
\* does not literally hold the text.
C16_SearchLiteral ==
    call.op = "search_students" =>
        LET hits == {s \in students :
                        /\ call.groupe # None => s.groupe = call.groupe
                        /\ \/ ContainsNoCase(s.matricule, call.query)
                           \/ ContainsNoCase(s.nom, call.query)
                           \/ ContainsNoCase(s.prenom, call.query)}
        IN  /\ {r.id : r \in Range(ret.results)} = {s.id : s \in hits}
            /\ Len(ret.results) = Cardinality(hits)
            /\ \A i \in 1..(Len(ret.results) - 1) :
                    \/ TextLess(ret.results[i].nom, ret.results[i + 1].nom)
                    \/ /\ ret.results[i].nom = ret.results[i + 1].nom
                       /\ ~TextLess(ret.results[i + 1].prenom, ret.results[i].prenom)

(***************************************************************************)
(* The operations of StudentTrackerDB when the database file, the          *)
(* spreadsheet or the backup folder cannot be opened: sqlite3.connect,     *)
(* pd.ExcelFile, pd.ExcelWriter or shutil.copy2 raises.                    *)
(***************************************************************************)
Surface ==
    {"import_from_excel", "export_to_excel", "backup_database",
     "search_students", "get_students_paginated", "get_all_groups",
     "get_student_stats", "delete_student"}

\* What each operation hands its caller when its first storage call raises:
\* the value its except clause returns, or the exception where the body is
\* in no try block
OnStorageError(op) ==
    CASE op = "import_from_excel" ->
            [raised |-> FALSE, ok |-> FALSE, message |-> "Import error",
             imported_count |-> 0]
      [] op = "export_to_excel" ->
            [raised |-> FALSE, ok |-> FALSE, message |-> "Export error"]
      [] op = "backup_database" ->
            [raised |-> FALSE, ok |-> FALSE, message |-> "Backup error"]
      [] op = "search_students" ->
            [raised |-> FALSE, results |-> <<>>]
      [] op = "get_students_paginated" ->
            [raised |-> FALSE, students |-> <<>>, page |-> 1,
             total_pages |-> 1, total_count |-> 0]
      [] op = "get_all_groups" ->
            [raised |-> TRUE, exception |-> "sqlite3.OperationalError"]
      [] op = "get_student_stats" ->
            [raised |-> FALSE, found |-> FALSE]
      [] op = "delete_student" ->
            [raised |-> FALSE, ok |-> FALSE,
             message |-> "unable to open database file"]

storage_error(op) ==
    /\ call' = [op |-> op, io_error |-> TRUE]
    /\ ret' = OnStorageError(op)
    /\ UNCHANGED <<students, attendance, marks, comments, seq, now, app, screen>>

\* ORDER BY groupe of the distinct groups
RECURSIVE OrderTexts(_)
OrderTexts(S) ==
    IF S = {} THEN <<>>
    ELSE LET first == CHOOSE s \in S : \A t \in S \ {s} : TextLess(s, t)
         IN  <<first>> \o OrderTexts(S \ {first})

\* SELECT DISTINCT groupe FROM students WHERE groupe IS NOT NULL
\* ORDER BY groupe
get_all_groups ==
    /\ call' = [op |-> "get_all_groups", io_error |-> FALSE]
    /\ ret' = [raised |-> FALSE,
               groups |-> OrderTexts({s.groupe : s \in students} \ {None})]
    /\ UNCHANGED <<students, attendance, marks, comments, seq, now, app, screen>>

StorageFails == \E op \in Surface : storage_error(op)

NextFault == StorageFails \/ get_all_groups

SpecFault == InitQuery /\ [][NextFault]_vars

\* C17: when the store or the target file is unavailable, every operation
\* of the surface returns a failure value to its caller (False with a
\* message, an empty result, or absent) and raises nothing; a failing
\* backup_database returns (False, message).
C17_NoUncaughtFailure ==
    (call.op \in Surface /\ call.io_error) =>
        /\ ~ret.raised
        /\ \/ "ok" \in DOMAIN ret /\ ~ret.ok /\ ret.message # ""
           \/ "results" \in DOMAIN ret /\ ret.results = <<>>
           \/ "students" \in DOMAIN ret /\ ret.students = <<>>
           \/ "found" \in DOMAIN ret /\ ~ret.found
        /\ call.op = "backup_database" => ~ret.ok /\ ret.message # ""

(***************************************************************************)
(* The application from build() to on_stop(): the Clock ticks every        *)
(* AUTO_BACKUP_INTERVAL seconds, and a tick runs the scheduled callback.   *)
(***************************************************************************)
\* backup_database: shutil.copy2 succeeds, or it (or os.makedirs) raises
\* and the except clause returns the failure
BackupDatabase(copy_ok) ==
    IF copy_ok
    THEN [ok |-> TRUE, message |-> "backups/backup_<timestamp>.db"]
    ELSE [ok |-> FALSE, message |-> "Backup error"]

\* auto_backup returning the success flag of the backup
auto_backup_returns_success(success) == IF success THEN "True" ELSE "False"

\* What lambda dt: self.auto_backup() returns: auto_backup has no return
\* statement
auto_backup_returns(success) == "None"

\* Clock.schedule_interval drops a callback that returns False and keeps
\* any other
KeepsInterval(returned) == returned # "False"

clock_tick(copy_ok) ==
    /\ app.running
    /\ app.ticks < MaxTicks
    /\ IF app.timer
       THEN LET r == BackupDatabase(copy_ok)
            IN  /\ app' = [app EXCEPT
                            !.ticks = @ + 1,
                            !.backups = Append(@, [by |-> "auto_backup",
                                                   ok |-> r.ok]),
                            !.timer = KeepsInterval(auto_backup_returns(r.ok))]
                /\ call' = [op |-> "auto_backup"]
                /\ ret' = r
       ELSE /\ app' = [app EXCEPT !.ticks = @ + 1]
            /\ UNCHANGED <<call, ret>>
    /\ UNCHANGED <<students, attendance, marks, comments, seq, now, screen>>

on_stop(copy_ok) ==
    /\ app.running
    /\ app' = [app EXCEPT
                !.running = FALSE,
                !.backups = Append(@, [by |-> "on_stop",
                                       ok |-> BackupDatabase(copy_ok).ok])]
    /\ call' = [op |-> "on_stop"]
    /\ ret' = BackupDatabase(copy_ok)
    /\ UNCHANGED <<students, attendance, marks, comments, seq, now, screen>>

ClockTick == \E copy_ok \in BOOLEAN : clock_tick(copy_ok)
OnStop == \E copy_ok \in BOOLEAN : on_stop(copy_ok)

NextApp == ClockTick \/ OnStop

SpecApp == Init /\ [][NextApp]_vars

(***************************************************************************)
(* Properties of the backups (SpecApp)                                     *)
(***************************************************************************)
BackupsBy(who) == {i \in DOMAIN app.backups : app.backups[i].by = who}

\* C18: backup_database is called once at every shutdown, whatever came
\* before it and whether or not earlier backups failed, and once at every
\* tick of the auto-backup interval while the application runs; a failed
\* timer backup does not cancel the following ticks.
C18_BackupAtStopAndTicks ==
    /\ Cardinality(BackupsBy("auto_backup")) = app.ticks
    /\ app.timer
    /\ app.running => BackupsBy("on_stop") = {}
    /\ ~app.running => BackupsBy("on_stop") = {Len(app.backups)}

\* C18 witness: the application has stopped after a timer backup that
\* failed, a later timer backup, and the backup of on_stop.
C18_Witness ==
    /\ ~app.running
    /\ Len(app.backups) >= 3
    /\ ~app.backups[1].ok
    /\ app.backups[1].by = "auto_backup"
    /\ app.backups[2].by = "auto_backup"
    /\ app.backups[Len(app.backups)].by = "on_stop"

(***************************************************************************)
(* Properties of the progress an import reports (SpecImport)               *)
(***************************************************************************)
\* a / b <= c / d for fractions <<a, b>>, <<c, d>> with b, d > 0
FracLeq(x, y) == x[1] * y[2] <= y[1] * x[2]
FracEq(x, y) == x[1] * y[2] = y[1] * x[2]

\* What C19 states of the values p an import of `file` with a sink
\* reported, the import returning ok
ProgressShape(file, ok, p) ==
    /\ \A i \in 1..(Len(p) - 1) : FracLeq(p[i], p[i + 1])
    /\ \A i \in 1..Len(p) : FracLeq(<<0, 1>>, p[i]) /\ FracLeq(p[i], <<1, 1>>)
    /\ file.readable => p # <<>>
    /\ p # <<>> => FracEq(p[1], <<1, 10>>)
    /\ ok => Len(p) >= 3 /\ FracEq(p[2], <<2, 10>>)
    /\ ~ok => Len(p) <= 1
    /\ \A i \in 3..(Len(p) - 1) :
            FracLeq(<<2, 10>>, p[i]) /\ FracLeq(p[i], <<9, 10>>)
    /\ ok <=> (p # <<>> /\ FracEq(p[Len(p)], <<1, 1>>))

\* C19: the values an import reports to its progress sink never decrease
\* and lie in [0, 1]; the first is 0.1, 0.2 follows column binding, the
\* values of the row loop lie in [0.2, 0.9], and 1.0 comes last exactly
\* when the import returns ok = True; the same import without a sink
\* leaves the same store and returns the same result.
C19_ProgressMonotone ==
    [][ImportStep =>
        LET silent == ImportFromExcel(
                        [students |-> students, seq |-> seq, replaced |-> {}],
                        call'.file, call'.groupe_name, FALSE, now')
        IN  /\ call'.progress_callback
            /\ ProgressShape(call'.file, ret'.ok, ret'.progress)
            /\ silent.db.students = students'
            /\ silent.db.seq = seq'
            /\ silent.ret.ok = ret'.ok
            /\ silent.ret.message = ret'.message
            /\ silent.ret.imported_count = ret'.imported_count
            /\ silent.ret.errors = ret'.errors
            /\ silent.ret.progress = <<>>]_vars

\* C19 witness: an import of eleven valid rows has reported 0.1, 0.2, the
\* values of rows 0 and 10, and 1.0.
C19_Witness ==
    /\ Imported
    /\ call.progress_callback
    /\ ret.ok
    /\ ret.imported_count = 11
    /\ Len(ret.progress) = 5
    /\ ret.progress[4] = <<92, 110>>

\* The rows (from 0) at which the row loop called the sink
ReportedRows(total_rows, p) ==
    {idx \in 0..(total_rows - 1) :
        \E i \in 3..(Len(p) - 1) : p[i] = RowProgress(idx, total_rows)}

\* C20: whatever valid, invalid and blank rows the file holds, no 10
\* consecutive data rows are processed without the progress sink being
\* called.
C20_ProgressEveryTenRows ==
    (Imported /\ call.progress_callback /\ ret.ok) =>
        LET total_rows == Len(DataRows(call.file))
            reported == ReportedRows(total_rows, ret.progress)
        IN  \A first \in 0..(total_rows - 10) :
                \E idx \in first..(first + 9) : idx \in reported

(***************************************************************************)
(* Properties of the fields an import stores (SpecImport)                  *)
(***************************************************************************)
\* The cell of `row` under `label`, or NaN when the sheet has no such column
CellUnder(columns, row, label) ==
    IF \E j \in 1..Len(columns) : columns[j] = label
    THEN row[SetMin({j \in 1..Len(columns) : columns[j] = label})]
    ELSE NaN

\* The text C21 states for a field: empty when missing, trimmed otherwise
TrimmedOrEmpty(cell) == IF cell = NaN THEN <<>> ELSE strip(cell)

\* Row i of `data` is the last valid row with its matricule
LastValidRow(columns, data, i) ==
    /\ RowIsValid(columns, data[i])
    /\ ~\E j \in (i + 1)..Len(data) :
            /\ RowIsValid(columns, data[j])
            /\ RowMatricule(columns, data[j]) = RowMatricule(columns, data[i])

\* C21: for every imported row with a valid matricule, each of nom, prenom,
\* section and groupe that is missing (no such column, or an empty cell) is
\* stored as the empty string, and a present value is stored trimmed.
C21_MissingStoredEmpty ==
    (Imported /\ ret.ok) =>
        LET columns == Columns(call.file)
            data == DataRows(call.file)
        IN  \A i \in 1..Len(data) :
                LastValidRow(columns, data, i) =>
                    \A s \in students :
                        s.matricule = RowMatricule(columns, data[i]) =>
                            /\ s.nom = TrimmedOrEmpty(CellUnder(columns, data[i], sNom))
                            /\ s.prenom = TrimmedOrEmpty(CellUnder(columns, data[i], sPrenom))
                            /\ s.section = TrimmedOrEmpty(CellUnder(columns, data[i], sSection))
                            /\ call.groupe_name = None =>
                                s.groupe = TrimmedOrEmpty(CellUnder(columns, data[i], sGroupe))

\* C22: with a group override every student row an import upserts has the
\* override as its groupe, whatever the row's Groupe cell holds; without an
\* override each upserted row has the group of its own row (the trimmed
\* Groupe cell, or the empty string when the sheet has no Groupe column).
C22_GroupOverride ==
    (Imported /\ ret.ok) =>
        LET columns == Columns(call.file)
            data == DataRows(call.file)
        IN  \A i \in 1..Len(data) :
                LastValidRow(columns, data, i) =>
                    /\ \E s \in students :
                            s.matricule = RowMatricule(columns, data[i])
                    /\ \A s \in students :
                        s.matricule = RowMatricule(columns, data[i]) =>
                            /\ call.groupe_name # None =>
                                    s.groupe = call.groupe_name
                            /\ (/\ call.groupe_name = None
                                /\ CellUnder(columns, data[i], sGroupe) # NaN) =>
                                    s.groupe = strip(CellUnder(columns, data[i], sGroupe))
                            /\ (/\ call.groupe_name = None
                                /\ ~HasColumn(columns, sGroupe)) =>
                                    s.groupe = <<>>

\* C22 witness: an import with the override G3 has upserted two students,
\* one from a row whose own Groupe cell holds G1, and both have groupe G3.
C22_Witness ==
    /\ Imported
    /\ ret.ok
    /\ call.groupe_name = G3
    /\ \E i \in 1..Len(DataRows(call.file)) :
            /\ RowIsValid(Columns(call.file), DataRows(call.file)[i])
            /\ CellUnder(Columns(call.file), DataRows(call.file)[i], sGroupe) = G1
    /\ Cardinality(students) = 2
    /\ \A s \in students : s.groupe = G3

\* The data rows (from 1) of each class, of the rows `data` under `columns`
BlankRows(columns, data) ==
    {i \in 1..Len(data) : RowIsBlank(columns, data[i])}
RejectedRows(columns, data) ==
    {i \in 1..Len(data) : RowIsInvalid(columns, data[i])}
UpsertedRows(columns, data) ==
    {i \in 1..Len(data) : RowIsValid(columns, data[i])}

\* C23: in a successful import every data row is blank (skipped, no error),
\* rejected (one error, nothing written) or upserted, and never two of
\* these; imported_count is the number of upserted rows, the errors are
\* those of the rejected rows, one each, and blank + rejected +
\* imported_count is the number of data rows.  The rows the import wrote
\* are those it stamped with its own time.
C23_RowAccounting ==
    (Imported /\ ret.ok) =>
        LET columns == Columns(call.file)
            data == DataRows(call.file)
            blank == BlankRows(columns, data)
            rejected == RejectedRows(columns, data)
            upserted == UpsertedRows(columns, data)
        IN  /\ blank \cup rejected \cup upserted = 1..Len(data)
            /\ blank \cap rejected = {}
            /\ blank \cap upserted = {}
            /\ rejected \cap upserted = {}
            /\ ret.imported_count = Cardinality(upserted)
            /\ Len(ret.errors) = Cardinality(rejected)
            /\ {ret.errors[k][1] : k \in 1..Len(ret.errors)} = rejected
            /\ ret.skipped = Cardinality(rejected)
            /\ Cardinality(blank) + Len(ret.errors) + ret.imported_count
                    = Len(data)
            /\ {s.matricule : s \in {t \in students : t.updated_at = now}} =
                    {RowMatricule(columns, data[i]) : i \in upserted}

\* C23 witness: a successful import of a sheet with a blank row, a rejected
\* row and an upserted row.
C23_Witness ==
    /\ Imported
    /\ ret.ok
    /\ BlankRows(Columns(call.file), DataRows(call.file)) # {}
    /\ RejectedRows(Columns(call.file), DataRows(call.file)) # {}
    /\ UpsertedRows(Columns(call.file), DataRows(call.file)) # {}
    /\ ret.imported_count = 1
    /\ Len(ret.errors) = 1

(***************************************************************************)
(* Properties of export_to_excel (SpecQuery)                               *)
(***************************************************************************)
\* s is not after t by nom, then prenom
NomPrenomLeq(s, t) ==
    \/ TextLess(s.nom, t.nom)
    \/ s.nom = t.nom /\ ~TextLess(t.prenom, s.prenom)

\* C24: export_to_excel writes exactly the student rows of the store (those
\* of the group when one is given), each once, ordered by groupe, nom,
\* prenom when unfiltered and by nom, prenom when filtered; the count of the
\* success message is the number of rows written; the store is unchanged.
C24_ExportWritesStore ==
    [][(call'.op = "export_to_excel" /\ call' # call) =>
        LET wanted == IF call'.groupe = None THEN students
                      ELSE {s \in students : s.groupe = call'.groupe}
            sheet == ret'.sheet
        IN  /\ ret'.ok
            /\ Range(sheet) = wanted
            /\ Len(sheet) = Cardinality(wanted)
            /\ ret'.exported = Len(sheet)
            /\ \A i \in 1..(Len(sheet) - 1) :
                    IF call'.groupe = None
                    THEN \/ TextLess(sheet[i].groupe, sheet[i + 1].groupe)
                         \/ /\ sheet[i].groupe = sheet[i + 1].groupe
                            /\ NomPrenomLeq(sheet[i], sheet[i + 1])
                    ELSE NomPrenomLeq(sheet[i], sheet[i + 1])
            /\ students' = students
            /\ attendance' = attendance
            /\ marks' = marks
            /\ comments' = comments]_vars

\* C24 witness: an unfiltered export of three students of two groups, the
\* student written first not the one inserted first.
C24_Witness ==
    /\ call.op = "export_to_excel"
    /\ call.groupe = None
    /\ ret.exported = 3
    /\ ret.sheet[1].id # 1
    /\ ret.sheet[1].groupe = G1
    /\ ret.sheet[3].groupe = G2
    /\ ret.sheet[1].nom = Bob
    /\ ret.sheet[3].nom = Ali

(***************************************************************************)
(* The frame of import_from_excel (Spec)                                   *)
(***************************************************************************)
\* C25: import_from_excel changes only the students table: the attendance,
\* marks and comments rows, and the student_id of each, are after the call
\* what they were before it, also when the file holds matricules of
\* students who have such rows.
C25_ImportFrame ==
    [][ImportStep =>
        /\ attendance' = attendance
        /\ marks' = marks
        /\ comments' = comments]_vars

\* C25 witness: an import has replaced the row of a student who has
\* attendance, marks or comments rows, and those rows are in the store.
C25_Witness ==
    /\ Imported
    /\ ret.ok
    /\ \E id \in call.replaced :
            \E r \in attendance \cup marks \cup comments : r.student_id = id

(***************************************************************************)
(* MainScreen: group selection, pages, search, deletion and the import     *)
(* thread.  The main thread runs the handlers and the callbacks scheduled  *)
(* on the Clock; do_import runs on the thread import_excel starts.         *)
(***************************************************************************)
Ids(rows) == [i \in 1..Len(rows) |-> rows[i].id]

update_pagination_controls(scr) ==
    [scr EXCEPT !.prev_disabled = scr.current_page <= 1,
                !.next_disabled = scr.current_page >= scr.total_pages]

\* load_students on table tbl: total_pages and the rows displayed are
\* replaced, current_page is the page asked for
load_students(scr, tbl) ==
    IF scr.selected_groupe = None THEN scr
    ELSE LET r == StudentsPaginated(tbl, scr.selected_groupe,
                        scr.current_page, STUDENTS_PER_PAGE)
         IN  update_pagination_controls(
                [scr EXCEPT !.total_pages = r.total_pages,
                            !.shown = Ids(r.students)])

clear_search(scr, tbl) ==
    LET cleared == [scr EXCEPT !.search_mode = FALSE, !.current_page = 1]
    IN  IF cleared.selected_groupe # None
        THEN load_students(cleared, tbl)
        ELSE [cleared EXCEPT !.shown = <<>>]

refresh_data(scr, tbl) ==
    IF scr.search_mode THEN clear_search(scr, tbl)
    ELSE IF scr.selected_groupe # None THEN load_students(scr, tbl)
    ELSE scr

refresh_groups(scr, tbl) ==
    LET groups == OrderTexts({s.groupe : s \in tbl} \ {None})
    IN  [scr EXCEPT !.spinner_values =
            IF groups # <<>> THEN groups ELSE <<NoGroupsText>>]

\* The spinner's text property changes to one of its values
on_group_selected(text) ==
    /\ ~screen.loading.open
    /\ text # screen.spinner_text
    /\ LET picked == [screen EXCEPT !.spinner_text = text]
       IN  screen' =
            IF text # <<>> /\ text # SelectGroupText /\ text # NoGroupsText
            THEN load_students(
                    [picked EXCEPT !.selected_groupe = text,
                                   !.current_page = 1,
                                   !.search_mode = FALSE], students)
            ELSE picked
    /\ call' = [op |-> "on_group_selected", text |-> text]
    /\ UNCHANGED <<students, attendance, marks, comments, seq, now, ret, app>>

\* Previous (-1) or Next (+1) pressed; a disabled button takes no press
change_page(direction) ==
    /\ ~screen.loading.open
    /\ IF direction < 0 THEN ~screen.prev_disabled ELSE ~screen.next_disabled
    /\ LET new_page == screen.current_page + direction
       IN  screen' =
            IF 1 <= new_page /\ new_page <= screen.total_pages
            THEN load_students([screen EXCEPT !.current_page = new_page],
                               students)
            ELSE screen
    /\ call' = [op |-> "change_page", direction |-> direction]
    /\ UNCHANGED <<students, attendance, marks, comments, seq, now, ret, app>>

perform_search(query) ==
    /\ ~screen.loading.open
    /\ strip(query) # <<>>
    /\ screen' = [screen EXCEPT
            !.search_mode = TRUE,
            !.shown = Ids(SearchStudents(students, query,
                                         screen.selected_groupe)),
            !.prev_disabled = TRUE,
            !.next_disabled = TRUE]
    /\ call' = [op |-> "perform_search", query |-> query]
    /\ UNCHANGED <<students, attendance, marks, comments, seq, now, ret, app>>

on_clear ==
    /\ ~screen.loading.open
    /\ screen' = clear_search(screen, students)
    /\ call' = [op |-> "clear_search"]
    /\ UNCHANGED <<students, attendance, marks, comments, seq, now, ret, app>>

\* MainScreen.delete_student, after the confirmation dialog of a displayed
\* row: the store's delete_student, then refresh_data
on_delete_confirmed(student_id) ==
    /\ ~screen.loading.open
    /\ seq - Cardinality(students) < MaxDeletes
    /\ students' = DeleteFromStudents(students, student_id)
    /\ attendance' = CascadeDelete(attendance, {student_id})
    /\ marks' = CascadeDelete(marks, {student_id})
    /\ comments' = CascadeDelete(comments, {student_id})
    /\ screen' = refresh_data(screen, DeleteFromStudents(students, student_id))
    /\ call' = [op |-> "delete_student", student_id |-> student_id,
                existed |-> student_id \in StudentIds]
    /\ ret' = [ok |-> TRUE, message |-> "Student deleted successfully"]
    /\ UNCHANGED <<seq, now, app>>

\* MainScreen.import_excel on the main thread: the popup is opened and the
\* thread running do_import is started
import_excel(file_path, groupe_name) ==
    /\ ~screen.loading.open
    /\ now < MaxTime
    /\ screen' = [screen EXCEPT
            !.loading = [Closed EXCEPT !.open = TRUE],
            !.thread = [pc |-> "do_import", file |-> file_path,
                        groupe_name |-> groupe_name, reported |-> 0],
            !.writes = @ \cup {[widget |-> "loading", thread |-> "main"]}]
    /\ call' = [op |-> "import_excel", file |-> file_path,
                groupe_name |-> groupe_name]
    /\ UNCHANGED <<students, attendance, marks, comments, seq, now, ret, app>>

\* What the running thread's call of import_from_excel returns
ThreadImport ==
    ImportFromExcel([students |-> students, seq |-> seq, replaced |-> {}],
        screen.thread.file, screen.thread.groupe_name, TRUE, now + 1)

\* do_import, on its thread: import_from_excel calls progress_callback,
\* which is update_progress of import_excel, which calls
\* LoadingPopup.update_progress there and then
do_import_progress ==
    /\ screen.thread.pc = "do_import"
    /\ LET progress == ThreadImport.ret.progress
           k == screen.thread.reported + 1
       IN  /\ k <= Len(progress)
           /\ screen' = [screen EXCEPT
                !.loading.value = <<progress[k][1] * 100, progress[k][2]>>,
                !.loading.percent = (progress[k][1] * 100) \div progress[k][2],
                !.thread.reported = k,
                !.writes = @ \cup {[widget |-> "progress", thread |-> "do_import"],
                                   [widget |-> "label", thread |-> "do_import"]}]
    /\ call' = [op |-> "update_progress"]
    /\ UNCHANGED <<students, attendance, marks, comments, seq, now, ret, app>>

\* do_import, on its thread: import_from_excel returns and _import_complete
\* is handed to Clock.schedule_once
do_import_return ==
    /\ screen.thread.pc = "do_import"
    /\ LET r == ThreadImport
       IN  /\ screen.thread.reported = Len(r.ret.progress)
           /\ students' = r.db.students
           /\ seq' = r.db.seq
           /\ attendance' = CascadeDelete(attendance, r.db.replaced)
           /\ marks' = CascadeDelete(marks, r.db.replaced)
           /\ comments' = CascadeDelete(comments, r.db.replaced)
           /\ call' = [op |-> "import_from_excel", file |-> screen.thread.file,
                       groupe_name |-> screen.thread.groupe_name,
                       progress_callback |-> TRUE,
                       replaced |-> r.db.replaced]
           /\ ret' = r.ret
           /\ screen' = [screen EXCEPT
                !.thread.pc = "returned",
                !.clock = Append(@, Scheduled("_import_complete", r.ret.ok))]
    /\ now' = now + 1
    /\ UNCHANGED app

\* _import_complete on the main thread
import_complete(scr, success, tbl) ==
    LET dismissed == [scr EXCEPT
            !.loading.open = FALSE,
            !.thread.pc = "none",
            !.writes = @ \cup {[widget |-> "loading", thread |-> "main"]}]
    IN  IF success
        THEN refresh_data(refresh_groups(dismissed, tbl), tbl)
        ELSE dismissed

\* The main loop runs the next callback scheduled on the Clock
run_scheduled ==
    /\ screen.clock # <<>>
    /\ LET event == Head(screen.clock)
           rest == [screen EXCEPT !.clock = Tail(@)]
       IN  screen' =
            IF event.fn = "refresh_groups" THEN refresh_groups(rest, students)
            ELSE import_complete(rest, event.success, students)
    /\ call' = [op |-> "Clock", fn |-> Head(screen.clock).fn]
    /\ UNCHANGED <<students, attendance, marks, comments, seq, now, ret, app>>

\* Ten leading zeros and two digits
Matricule2(i) ==
    <<"0", "0", "0", "0", "0", "0", "0", "0", "0", "0">>
        \o DigitText(i \div 10) \o DigitText(i % 10)

\* One group filling a page and one row more, and a second group of one
\* student
ClassStore ==
    {[id |-> i, matricule |-> Matricule2(i), nom |-> Ali, prenom |-> Ben,
      section |-> S1, groupe |-> G1, created_at |-> 0, updated_at |-> 0] :
        i \in 1..(STUDENTS_PER_PAGE + 1)}
    \cup
    {[id |-> STUDENTS_PER_PAGE + 2, matricule |-> Matricule2(STUDENTS_PER_PAGE + 2),
      nom |-> Bob, prenom |-> Ben, section |-> S1, groupe |-> G2,
      created_at |-> 0, updated_at |-> 0]}

\* The files chosen on the main screen: one moves student 1 to the second
\* group, one cannot be read
ScreenFiles ==
    {Workbook("Sheet1",
        SheetRows(1, HStd, <<Rec(Matricule2(1), Bob, Ben, S1, G2)>>)),
     Unreadable}

ScreenQueries == {<<"5", "1">>, <<"o", "b">>}

InitScreen ==
    /\ students \in {ClassStore, {}}
    /\ seq = Cardinality(students)
    /\ attendance = {}
    /\ marks = {}
    /\ comments = {}
    /\ now = 0
    /\ app = Built
    /\ screen = Opened
    /\ call = [op |-> "init_database"]
    /\ ret = [ok |-> TRUE]

GroupSelected ==
    \E i \in 1..Len(screen.spinner_values) :
        on_group_selected(screen.spinner_values[i])
PageChanged == \E direction \in {-1, 1} : change_page(direction)
SearchPressed == \E query \in ScreenQueries : perform_search(query)
ClearPressed == on_clear
DeleteConfirmed ==
    /\ screen.shown # <<>>
    /\ \E student_id \in {screen.shown[1], screen.shown[Len(screen.shown)]} :
        on_delete_confirmed(student_id)
ImportChosenFile ==
    \E file_path \in ScreenFiles, groupe_name \in {None} :
        import_excel(file_path, groupe_name)

NextScreen ==
    \/ GroupSelected
    \/ PageChanged
    \/ SearchPressed
    \/ ClearPressed
    \/ DeleteConfirmed
    \/ ImportChosenFile
    \/ do_import_progress
    \/ do_import_return
    \/ run_scheduled

SpecScreen == InitScreen /\ [][NextScreen]_vars

\* C26: in MainScreen.import_excel the import runs on a background thread
\* and every UI update it causes is executed on the main thread: no widget
\* is written by the thread of do_import, in any interleaving
C26_WidgetsWrittenOnMainThread ==
    \A w \in screen.writes : w.thread = "main"

C27_CountEqualsRows ==
    [][(ImportStep /\ students = {} /\ ret'.ok)
        => Cardinality(students') = ret'.imported_count]_vars

====
